---- MODULE Spec2Model ----
(***************************************************************************)
(* Deployment tooling of the SBOM security agent: the three deployment     *)
(* scripts (enhanced_deployment.py, simple_enhanced_deployment.py,         *)
(* working_deployment.py with deployment_config.py), the cleanup utility   *)
(* (cleanup_deployment.py) and the endpoint helpers (get_agent_info.py,    *)
(* find_endpoint.py).                                                      *)
(*                                                                         *)
(* The specifications of the module:                                      *)
(*   Spec         one deployment run;                                      *)
(*   SpecLive     the same run under weak fairness;                        *)
(*   SpecOAuth    the OAuth stage of two runs racing on the shared         *)
(*                provider;                                                *)
(*   SpecCleanup  one run of the cleanup command;                          *)
(*   SpecRetry    the cleanup command run with --execute, twice;           *)
(*   SpecDiscovery the discovery of each command on its own;               *)
(*   SpecUrl      validate_endpoint_url applied to bounded inputs;         *)
(*   SpecEnv      deployment runs and get_agent_info.py --save-env on one  *)
(*                .env file;                                               *)
(*   SpecInfo     one endpoint resolution (find_endpoint.py,               *)
(*                get_endpoint_url_from_user);                             *)
(*   SpecNames    generated names and looked-up resource names.            *)
(***************************************************************************)
EXTENDS Integers, Sequences, FiniteSets, TLC

VARIABLES
    \* ---- endpoint helper (get_agent_info.py)
    url_in,          \* the raw string handed to validate_endpoint_url
    url_out,         \* its result, or Pending before the call
    \* ---- cleanup command (cleanup_deployment.py)
    cl_pc,           \* position of cleanup main()
    cl_execute,      \* args.execute
    cl_pattern,      \* args.pattern
    cl_region,       \* the session has a region configured
    cl_policies,     \* policies left on the runtime role: [attached, inline]
    cl_inventory,    \* resources existing at the provider
    cl_resources,    \* the list returned by list_agentcore_resources
    cl_idx,          \* index of the resource cleanup_resources is at
    cl_calls,        \* provider calls issued by the cleanup command, in order
    cl_success,      \* success_count
    cl_error,        \* error_count
    cl_exit,         \* exit code of the command, or NoExit
    cl_first,        \* what the command did when it was run before, or NoRun
    cl_confirm,      \* what the user typed at the confirmation, or NoAnswer
    \* ---- deployment run
    script,          \* which deployment script is run
    mode,            \* the policy mode given on the command line
    auto_update,     \* --auto-update (self.auto_update)
    force_recreate,  \* --force-recreate (self.force_recreate)
    base_name,       \* --agent-name as requested
    agent_name,      \* the name the run currently deploys under
    pc,              \* position of the main run
    cognito_config,  \* the identity configuration the run holds
    configured,      \* agent_name of the Runtime object that is launched
    artifacts,       \* existing_artifacts found by check_existing_deployment
    calls,           \* provider calls issued by the main run, in order
    prompts,         \* questions asked to the user, in order
    env_file,        \* lines appended to .env by the run
    result,          \* outcome of the run
    now,             \* wall clock, in seconds
    existing,        \* resource kinds existing for base_name at the provider
    creds,           \* GITHUB_CLIENT_ID and GITHUB_CLIENT_SECRET are set
    oauth_exists,    \* the provider holds 'github-provider'
    peer,            \* the concurrent run's OAuth stage: [script, pc, ...]
    \* ---- information commands (get_agent_info.py, find_endpoint.py)
    info_cmd,        \* the command that was run, or NoCommand
    os_environ,      \* the endpoint variables of the process environment
    info_calls,      \* provider lookups issued by the command, in order
    info_consulted,  \* endpoint sources the command consulted, in order
    info_asked,      \* questions the command asked the user, in order
    info_out,        \* the endpoint the command ended with, or NotFound
    info_exit,       \* exit code of the command, or NoExit
    \* ---- name derivation (generate_unique_agent_name, resource names)
    name_in,         \* the arguments of the derivation
    name_out         \* the names derived, or NamePending before the call

urlVars == <<url_in, url_out>>
clVars  == <<cl_pc, cl_execute, cl_pattern, cl_region, cl_policies, cl_inventory,
             cl_resources, cl_idx, cl_calls, cl_success, cl_error, cl_exit,
             cl_first, cl_confirm>>
depVars == <<script, mode, auto_update, force_recreate, base_name, agent_name, pc,
             cognito_config, configured, artifacts, calls, prompts, env_file, result, now, existing,
             creds, oauth_exists, peer>>
infoVars == <<info_cmd, os_environ, info_calls, info_consulted, info_asked, info_out,
              info_exit>>
nameVars == <<name_in, name_out>>
vars    == <<urlVars, clVars, depVars, infoVars, nameVars>>

(***************************************************************************)
(* Strings that the code inspects character by character are sequences of  *)
(* one-character strings.                                                  *)
(***************************************************************************)
StartsWith(s, p) == Len(s) >= Len(p) /\ SubSeq(s, 1, Len(p)) = p
EndsWith(s, p)   == Len(s) >= Len(p) /\ SubSeq(s, Len(s) - Len(p) + 1, Len(s)) = p

Whitespace == {" "}

RECURSIVE LStrip(_)
LStrip(s) == IF s # <<>> /\ Head(s) \in Whitespace THEN LStrip(Tail(s)) ELSE s

RECURSIVE RStrip(_)
RStrip(s) ==
    IF s # <<>> /\ s[Len(s)] \in Whitespace THEN RStrip(SubSeq(s, 1, Len(s) - 1)) ELSE s

\* str.strip()
Strip(s) == RStrip(LStrip(s))

\* The least index of s holding a character of D, Len(s) + 1 when there is none.
FirstOf(s, D) ==
    IF \E i \in 1..Len(s) : s[i] \in D
    THEN CHOOSE i \in 1..Len(s) : s[i] \in D /\ \A j \in 1..(i - 1) : s[j] \notin D
    ELSE Len(s) + 1

HttpPrefix  == <<"h", "t", "t", "p", ":", "/", "/">>
HttpsPrefix == <<"h", "t", "t", "p", "s", ":", "/", "/">>
InvocationsWord == <<"i", "n", "v", "o", "c", "a", "t", "i", "o", "n", "s">>
InvocationsPath == <<"/">> \o InvocationsWord

\* urllib.parse.urlparse on a string that starts with http:// or https://:
\* the netloc runs to the first of / ? #, the path from there to the first
\* of ? #.
UrlParse(url) ==
    LET pre  == IF StartsWith(url, HttpsPrefix) THEN HttpsPrefix ELSE HttpPrefix
        rest == SubSeq(url, Len(pre) + 1, Len(url))
        d    == FirstOf(rest, {"/", "?", "#"})
        tl   == SubSeq(rest, d, Len(rest))
        e    == FirstOf(tl, {"?", "#"})
    IN  [netloc |-> SubSeq(rest, 1, d - 1), path |-> SubSeq(tl, 1, e - 1)]

Pending == [ok |-> FALSE, url |-> <<>>, error |-> "pending"]
UrlError(msg) == [ok |-> FALSE, url |-> <<>>, error |-> msg]
UrlOk(u)      == [ok |-> TRUE, url |-> u, error |-> ""]

\* The scheme default of validate_endpoint_url.
AddScheme(u) ==
    IF StartsWith(u, HttpPrefix) \/ StartsWith(u, HttpsPrefix) THEN u ELSE HttpsPrefix \o u

\* The suffix step of validate_endpoint_url.
AppendSuffix(u, path) ==
    IF EndsWith(path, InvocationsPath) THEN u
    ELSE IF path # <<>> /\ ~EndsWith(path, <<"/">>) THEN u \o InvocationsPath
    ELSE u \o InvocationsWord

validate_endpoint_url(url) ==
    IF url = <<>> THEN UrlError("URL cannot be empty")
    ELSE LET u == AddScheme(Strip(url))
             parsed == UrlParse(u)
         IN  IF parsed.netloc = <<>> THEN UrlError("Invalid URL format")
             ELSE UrlOk(AppendSuffix(u, parsed.path))

----------------------------------------------------------------------------
(* Inputs of the endpoint helper. *)

MaxHostLabels == 2

RECURSIVE HostOf(_)
HostOf(n) == IF n = 0 THEN <<>>
             ELSE IF n = 1 THEN <<"h">>
             ELSE HostOf(n - 1) \o <<".", "h">>

Hosts == {HostOf(n) : n \in 0..MaxHostLabels}
Schemes == {<<>>, HttpPrefix, HttpsPrefix}
Paths == {<<>>, <<"/">>, InvocationsPath, <<"/", "a">>, <<"/", "a", "/">>,
          InvocationsPath \o <<"/">>, <<"/", "a">> \o InvocationsPath,
          <<"/">> \o InvocationsPath}
Tails == {<<>>, <<"?", "x">>, <<"#", "f">>}
Pads  == {<<>>, <<" ">>}

UrlInputs == {p1 \o s \o h \o p \o t \o p2 :
                 p1 \in Pads, s \in Schemes, h \in Hosts, p \in Paths,
                 t \in Tails, p2 \in Pads}

UrlIdle == url_in = <<>> /\ url_out = Pending

UrlInit == url_in \in UrlInputs /\ url_out = Pending

Validate ==
    /\ url_out = Pending
    /\ url_out' = validate_endpoint_url(url_in)
    /\ UNCHANGED <<url_in, clVars, depVars, infoVars, nameVars>>

----------------------------------------------------------------------------
(* cleanup_deployment.py *)

\* Resource names are sequences of tokens; "x in name" is containment of a
\* contiguous run of tokens.
Contains(name, sub) ==
    \E i \in 1..(Len(name) - Len(sub) + 1) : SubSeq(name, i, i + Len(sub) - 1) = sub

EcrRepository    == "ECR Repository"
LambdaFunction == "Lambda Function"
IamRole    == "IAM Role"
LogGroup   == "CloudWatch Log Group"
KindOrder == <<EcrRepository, LambdaFunction, IamRole, LogGroup>>
Kinds == {KindOrder[i] : i \in 1..Len(KindOrder)}

\* The marker each kind's listing filters on.
Marker(kind) ==
    CASE kind = EcrRepository    -> <<"agentcore-runtime">>
      [] kind = LambdaFunction -> <<"agentcore-runtime">>
      [] kind = IamRole    -> <<"AgentCoreRuntimeRole">>
      [] kind = LogGroup   -> <<"bedrock-agentcore">>

ListMethod(kind) ==
    CASE kind = EcrRepository    -> "describe_repositories"
      [] kind = LambdaFunction -> "list_functions"
      [] kind = IamRole    -> "list_roles"
      [] kind = LogGroup   -> "describe_log_groups"

DeleteMethod(kind) ==
    CASE kind = EcrRepository    -> "delete_repository"
      [] kind = LambdaFunction -> "delete_function"
      [] kind = IamRole    -> "delete_role"
      [] kind = LogGroup   -> "delete_log_group"

DeleteMethods == {DeleteMethod(k) : k \in Kinds} \cup {"detach_role_policy", "delete_role_policy"}

RoleName == <<"AgentCoreRuntimeRole", "-", "sbom", "_", "agent">>

\* The resources the provider may hold, in the order its listings return them.
Pool == <<
    [kind |-> EcrRepository,    name |-> <<"agentcore-runtime", "-", "sbom", "-", "agent">>],
    [kind |-> EcrRepository,    name |-> <<"agentcore-runtime", "-", "my", "-", "app">>],
    [kind |-> LambdaFunction, name |-> <<"agentcore-runtime", "-", "sbom", "-", "agent">>],
    [kind |-> LambdaFunction, name |-> <<"sbom", "-", "worker">>],
    [kind |-> IamRole,    name |-> RoleName],
    [kind |-> LogGroup,   name |-> <<"/aws/", "bedrock-agentcore", "/", "sbom">>] >>
PoolSet == {Pool[i] : i \in 1..Len(Pool)}
Patterns == {<<"sbom">>, <<"my">>}

MaxPolicies == 1

NoExit == "none"
NoRun == [ran |-> FALSE]
NoAnswer == <<"<none>">>

\* One entry of the list built by list_agentcore_resources.
Listed(r) ==
    [type |-> r.kind, name |-> r.name, delete_method |-> DeleteMethod(r.kind),
     delete_params |-> r.name, requires_policy_cleanup |-> (r.kind = IamRole)]

\* The filter of list_agentcore_resources, mutated: the pattern test is dropped.
MatchesMarkerOnly(r, pattern) == Contains(r.name, Marker(r.kind))

\* The filter of list_agentcore_resources.
Matches(r, pattern) == Contains(r.name, Marker(r.kind)) /\ Contains(r.name, pattern)

\* ListKind, mutated: the listing returns every resource there ever was.
ListKindStale(kind, inventory, pattern) ==
    LET Keep(r) == r.kind = kind /\ Matches(r, pattern)
        kept == SelectSeq(Pool, Keep)
    IN  [i \in 1..Len(kept) |-> Listed(kept[i])]

\* The entries one kind's listing contributes.
ListKind(kind, inventory, pattern) ==
    LET Keep(r) == r.kind = kind /\ r \in inventory /\ Matches(r, pattern)
        kept == SelectSeq(Pool, Keep)
    IN  [i \in 1..Len(kept) |-> Listed(kept[i])]

RECURSIVE ListFrom(_, _, _, _)
ListFrom(k, failing, inventory, pattern) ==
    IF k > Len(KindOrder) THEN [res |-> <<>>, log |-> <<>>]
    ELSE LET kind == KindOrder[k]
             rest == ListFrom(k + 1, failing, inventory, pattern)
             ok   == kind \notin failing
         IN  [res |-> (IF ok THEN ListKind(kind, inventory, pattern) ELSE <<>>) \o rest.res,
              log |-> <<[op |-> ListMethod(kind), name |-> <<>>, ok |-> ok]>> \o rest.log]

\* list_agentcore_resources: the kinds in `failing` raise in their listing call.
list_agentcore_resources(region, failing, inventory, pattern) ==
    IF ~region THEN [res |-> <<>>, log |-> <<>>]
    ELSE ListFrom(1, failing, inventory, pattern)

ClIdle ==
    /\ cl_pc = "off" /\ cl_execute = FALSE /\ cl_pattern = <<>> /\ cl_region = FALSE
    /\ cl_policies = [attached |-> 0, inline |-> 0] /\ cl_inventory = {}
    /\ cl_resources = <<>> /\ cl_idx = 0 /\ cl_calls = <<>>
    /\ cl_success = 0 /\ cl_error = 0 /\ cl_exit = NoExit /\ cl_first = NoRun
    /\ cl_confirm = NoAnswer

ClInit ==
    /\ cl_pc = "list"
    /\ cl_execute \in BOOLEAN
    /\ cl_pattern \in Patterns
    /\ cl_region \in BOOLEAN
    /\ cl_inventory \in SUBSET PoolSet
    /\ cl_policies \in [attached : 0..MaxPolicies, inline : 0..MaxPolicies]
    /\ (Pool[5] \notin cl_inventory => cl_policies = [attached |-> 0, inline |-> 0])
    /\ cl_resources = <<>> /\ cl_idx = 0 /\ cl_calls = <<>>
    /\ cl_success = 0 /\ cl_error = 0 /\ cl_exit = NoExit /\ cl_first = NoRun
    /\ cl_confirm = NoAnswer

\* main(): resources = list_agentcore_resources(args.pattern); display_resources.
ClList ==
    /\ cl_pc = "list"
    /\ \E failing \in SUBSET Kinds :
         LET got == list_agentcore_resources(cl_region, failing, cl_inventory, cl_pattern)
         IN  /\ cl_resources' = got.res
             /\ cl_calls' = cl_calls \o got.log
             /\ cl_pc' = IF got.res = <<>> THEN "exit"
                         ELSE IF cl_execute THEN "confirm" ELSE "cleanup"
    /\ cl_idx' = 1
    /\ UNCHANGED <<cl_execute, cl_pattern, cl_region, cl_policies, cl_inventory,
                   cl_success, cl_error, cl_exit, cl_first, cl_confirm, urlVars, depVars,
                   infoVars, nameVars>>

\* str.lower() on the letters the confirmation answers use.
LowerChar(c) ==
    CASE c = "Y" -> "y" [] c = "E" -> "e" [] c = "S" -> "s"
      [] c = "N" -> "n" [] c = "O" -> "o" [] c = "A" -> "a"
      [] c = "B" -> "b" [] c = "M" -> "m" [] OTHER -> c
Lower(s) == [i \in 1..Len(s) |-> LowerChar(s[i])]

Interrupt == <<"^C">>
Answers == {<<"y", "e", "s">>, <<" ", "Y", "E", "S", " ">>, <<"y">>, <<"n", "o">>, <<>>,
            <<"y", "e", "s", "!">>}

\* The confirmation test of main(), mutated: any non-empty answer confirms.
ConfirmedAnyAnswer(answer) == Lower(Strip(answer)) # <<>>

\* The confirmation test of main(): input(...).strip().lower() compared with 'yes'.
Confirmed(answer) == Lower(Strip(answer)) = <<"y", "e", "s">>

\* main(): the confirmation asked before an --execute cleanup.
ClConfirm ==
    /\ cl_pc = "confirm"
    /\ \E answer \in Answers \cup {Interrupt} :
         /\ cl_confirm' = answer
         /\ IF answer = Interrupt
            THEN cl_pc' = "done" /\ cl_exit' = "1"
            ELSE IF ~Confirmed(answer)
            THEN cl_pc' = "done" /\ cl_exit' = "0"
            ELSE cl_pc' = "cleanup" /\ cl_exit' = cl_exit
    /\ UNCHANGED <<cl_execute, cl_pattern, cl_region, cl_policies, cl_inventory,
                   cl_resources, cl_idx, cl_calls, cl_success, cl_error, cl_first,
                   urlVars, depVars,
                   infoVars, nameVars>>

Min(a, b) == IF a < b THEN a ELSE b
Max(a, b) == IF a > b THEN a ELSE b

\* The calls cleanup_iam_role_policies issues for a role holding `pol` when none fails.
PolicyOps(pol) ==
    <<"list_attached_role_policies">> \o [k \in 1..pol.attached |-> "detach_role_policy"]
    \o <<"list_role_policies">> \o [k \in 1..pol.inline |-> "delete_role_policy"]

\* cleanup_iam_role_policies, mutated: the role is left as it is.
cleanup_iam_role_policies_skipped(role_name, pol, fail) ==
    [log |-> <<>>, policies |-> pol]

\* cleanup_iam_role_policies: the fail-th call raises (0: none does), which ends
\* the policy cleanup with a warning.
cleanup_iam_role_policies(role_name, pol, fail) ==
    LET ops    == PolicyOps(pol)
        issued == IF fail = 0 THEN Len(ops) ELSE fail
        n_ok   == IF fail = 0 THEN Len(ops) ELSE fail - 1
    IN  [log |-> [k \in 1..issued |->
                     [op |-> ops[k], name |-> role_name, ok |-> (k # fail)]],
         policies |->
             [attached |-> pol.attached - Max(0, Min(pol.attached, n_ok - 1)),
              inline   |-> pol.inline
                           - Max(0, Min(pol.inline, n_ok - (pol.attached + 2)))]]

\* The body of the loop of cleanup_resources in dry-run mode, mutated: the
\* delete call is issued all the same.
DryRunStepDeleting(resource) ==
    [log |-> <<[op |-> resource.delete_method, name |-> resource.delete_params, ok |-> TRUE]>>,
     ok |-> TRUE]

\* The body of the loop of cleanup_resources in dry-run mode: a message only.
DryRunStep(resource) == [log |-> <<>>, ok |-> TRUE]

\* cleanup_resources: the loop, mutated: a failed deletion ends it.
NextResourceStopping(idx, n, deleted) == IF deleted THEN idx + 1 ELSE n + 1

\* cleanup_resources: the index the loop goes on with after resources[idx] of
\* n; the exception of a delete call is caught inside the loop body.
NextResource(idx, n, deleted) == idx + 1

\* cleanup_resources: one pass of the loop, for resources[cl_idx].
ClStep ==
    /\ cl_pc = "cleanup"
    /\ cl_idx <= Len(cl_resources)
    /\ LET resource == cl_resources[cl_idx]
           dry_run  == ~cl_execute
       IN  IF dry_run
           THEN LET step == DryRunStep(resource)
                IN  /\ cl_calls' = cl_calls \o step.log
                    /\ cl_success' = cl_success + 1
                    /\ cl_idx' = NextResource(cl_idx, Len(cl_resources), step.ok)
                    /\ UNCHANGED <<cl_error, cl_policies, cl_inventory>>
           ELSE \E fail \in 0..Len(PolicyOps(cl_policies)), deleted \in BOOLEAN :
                  LET pre == IF resource.requires_policy_cleanup
                             THEN cleanup_iam_role_policies(resource.name, cl_policies, fail)
                             ELSE [log |-> <<>>, policies |-> cl_policies]
                      del == [op |-> resource.delete_method,
                              name |-> resource.delete_params, ok |-> deleted]
                  IN  /\ (~resource.requires_policy_cleanup => fail = 0)
                      /\ cl_calls' = cl_calls \o pre.log \o <<del>>
                      /\ cl_policies' = IF deleted /\ resource.requires_policy_cleanup
                                        THEN [attached |-> 0, inline |-> 0]
                                        ELSE pre.policies
                      /\ cl_inventory' =
                             IF deleted
                             THEN cl_inventory \ {[kind |-> resource.type,
                                                   name |-> resource.delete_params]}
                             ELSE cl_inventory
                      /\ cl_success' = IF deleted THEN cl_success + 1 ELSE cl_success
                      /\ cl_error' = IF deleted THEN cl_error ELSE cl_error + 1
                      /\ cl_idx' = NextResource(cl_idx, Len(cl_resources), deleted)
    /\ UNCHANGED <<cl_pc, cl_execute, cl_pattern, cl_region, cl_resources, cl_exit,
                   cl_first, cl_confirm, urlVars, depVars,
                   infoVars, nameVars>>

\* cleanup_resources returns error_count == 0; main() reports and exits 0.
ClFinish ==
    /\ \/ cl_pc = "cleanup" /\ cl_idx > Len(cl_resources)
       \/ cl_pc = "exit"
    /\ cl_pc' = "done"
    /\ cl_exit' = "0"
    /\ UNCHANGED <<cl_execute, cl_pattern, cl_region, cl_policies, cl_inventory,
                   cl_resources, cl_idx, cl_calls, cl_success, cl_error, cl_first,
                   cl_confirm,
                   urlVars, depVars,
                   infoVars, nameVars>>

\* The delete calls issued for resources[j].
AttemptsOf(j) ==
    {i \in DOMAIN cl_calls :
        /\ cl_calls[i].op = cl_resources[j].delete_method
        /\ cl_calls[i].name = cl_resources[j].delete_params}

\* The provider resource that resources[j] stands for.
Item(j) == [kind |-> cl_resources[j].type, name |-> cl_resources[j].name]

\* The resources the run has issued a delete call for, and those for which
\* the call raised.
Attempted == {Item(j) : j \in {k \in DOMAIN cl_resources : AttemptsOf(k) # {}}}
AttemptFailed ==
    {Item(j) : j \in {k \in DOMAIN cl_resources :
                         \E i \in AttemptsOf(k) : ~cl_calls[i].ok}}

\* The cleanup command is run a second time with the same arguments; the
\* provider is as the first run left it.
ClRerun ==
    /\ cl_pc = "done"
    /\ cl_first = NoRun
    /\ cl_first' = [ran |-> TRUE, attempted |-> Attempted, failed |-> AttemptFailed]
    /\ cl_pc' = "list"
    /\ cl_resources' = <<>> /\ cl_idx' = 0 /\ cl_calls' = <<>>
    /\ cl_success' = 0 /\ cl_error' = 0 /\ cl_exit' = NoExit
    /\ cl_confirm' = NoAnswer
    /\ UNCHANGED <<cl_execute, cl_pattern, cl_region, cl_policies, cl_inventory,
                   urlVars, depVars, infoVars, nameVars>>

----------------------------------------------------------------------------
(* The deployment scripts. *)

ENHANCED == "enhanced_deployment"
SIMPLE   == "simple_enhanced_deployment"
WORKING  == "working_deployment"
Scripts  == {ENHANCED, SIMPLE, WORKING}

Standard      == "Standard"
AutoUpdate    == "AutoUpdate"
ForceRecreate == "ForceRecreate"
PolicyModes   == {Standard, AutoUpdate, ForceRecreate}
\* Both --auto-update and --force-recreate on the command line.
BothFlags     == "AutoUpdate+ForceRecreate"
FlagModes     == PolicyModes \cup {BothFlags}

AGENT_NAME == "sbom_security_agent"
BaseNames  == {AGENT_NAME, "my-agent"}
NewNames   == {"", "other_agent"}
NoName     == "<none>"

MaxClock   == 1
MaxPrompts == 3

DigitStr == <<"0", "1", "2", "3", "4", "5", "6", "7", "8", "9">>

\* datetime.datetime.now().strftime("%Y%m%d_%H%M%S") for the clock value t,
\* counted in seconds from 2025-01-01 00:00:00 and kept below one minute.
Timestamp(t) ==
    "20250101_0000" \o DigitStr[((t \div 10) % 6) + 1] \o DigitStr[(t % 10) + 1]

\* generate_unique_agent_name, mutated: the base name is returned as it is.
generate_same_agent_name(base, m, t) == base

generate_unique_agent_name(base, m, t) == base \o "_" \o m \o "_" \o Timestamp(t)

\* Error messages are sequences of tokens; str.lower() acts token by token.
LowerTok(w) ==
    CASE w = "Resource" -> "resource" [] w = "Conflict" -> "conflict"
      [] w = "Exception" -> "exception" [] w = "Already" -> "already"
      [] w = "Exists" -> "exists" [] w = "Duplicate" -> "duplicate"
      [] OTHER -> w
LowerMsg(msg) == [i \in 1..Len(msg) |-> LowerTok(msg[i])]

MsgAlreadyExists == <<"provider", " ", "Already", " ", "exists">>
MsgDenied        == <<"Access", "Denied">>

LaunchErrors ==
    {<<"agent", " ", "already", " ", "exists">>, <<"Resource", "Conflict", "Exception">>,
     <<"name", " ", "Exists">>, <<"Duplicate", " ", "name">>, <<"Access", "Denied">>}

HasAlreadyExists(msg) == Contains(LowerMsg(msg), <<"already", " ", "exists">>)
HasDuplicate(msg)     == Contains(LowerMsg(msg), <<"duplicate">>)
HasConflict(msg)      == Contains(LowerMsg(msg), <<"conflict">>)

\* The except branch of setup_github_oauth_provider, mutated: every error fails.
CreateErrorNeverAccepted(scr, msg) == FALSE

\* The except branch of setup_github_oauth_provider: whether the error counts
\* as "the provider already exists".
CreateErrorAccepted(scr, msg) ==
    IF scr = WORKING
    THEN HasAlreadyExists(msg) \/ HasDuplicate(msg)
    ELSE HasAlreadyExists(msg)

\* The conflict test applied to a launch error.
IsConflictError(scr, msg) ==
    LET m == LowerMsg(msg)
        common == HasAlreadyExists(msg) \/ HasConflict(msg) \/ HasDuplicate(msg)
    IN  CASE scr = WORKING  -> common
          [] scr = ENHANCED -> common \/ Contains(m, <<"resource", "conflict", "exception">>)
          [] scr = SIMPLE   -> \/ common
                               \/ Contains(m, <<"resource", "conflict", "exception">>)
                               \/ Contains(m, <<"already", "exists">>)
                               \/ Contains(m, <<"exists">>)

YesAnswers == {<<"y">>, <<"y", "e", "s">>, <<"1">>, <<"t", "r", "u", "e">>}
\* input(...).strip().lower() in ['y', 'yes', '1', 'true']
Affirmative(answer) == Lower(Strip(answer)) \in YesAnswers

NoError == <<>>

\* One provider call of the run: what was called, for which name, whether it
\* returned, the error message it raised, and whether the thing asked for
\* existed at the provider when the call was served.
Call(op, name, ok, msg, seen) ==
    [op |-> op, name |-> name, ok |-> ok, msg |-> msg, seen |-> seen]

OpList      == "list_oauth2_credential_providers"
OpCreate    == "create_oauth2_credential_provider"
OpCognito   == "setup_cognito_user_pool"
OpConfigure == "configure"
OpLaunch    == "launch"

Running      == "running"
Launched     == "Launched"
Cancelled    == "Cancelled"
Rejected     == "Rejected"
FailedOAuth     == "Failed(oauth)"
FailedIdentity  == "Failed(identity)"
FailedConfigure == "Failed(configure)"
FailedLaunch    == "Failed(launch)"

PeerOff == [script |-> "none", interactive |-> FALSE, pc |-> "off", msg |-> NoError]
Peers == {[script |-> s, interactive |-> i, pc |-> "oauth_list", msg |-> NoError] :
             s \in Scripts, i \in BOOLEAN}

DepIdle ==
    /\ script = "none" /\ mode = Standard /\ auto_update = FALSE /\ force_recreate = FALSE
    /\ base_name = NoName /\ agent_name = NoName /\ pc = "off"
    /\ cognito_config = "none" /\ configured = NoName /\ artifacts = <<>>
    /\ calls = <<>> /\ prompts = <<>> /\ env_file = <<>> /\ result = Running
    /\ now = 0 /\ existing = {} /\ creds = FALSE /\ oauth_exists = FALSE
    /\ peer = PeerOff

DiscKinds == {EcrRepository, IamRole, LambdaFunction}

\* main(): the arguments are parsed and the run is set up.
DepInit(peers) ==
    /\ script \in Scripts
    /\ mode \in FlagModes
    /\ auto_update = (mode \in {AutoUpdate, BothFlags})
    /\ force_recreate = (mode \in {ForceRecreate, BothFlags})
    /\ base_name \in BaseNames
    /\ agent_name = base_name
    /\ pc = "start"
    /\ cognito_config = "none" /\ configured = NoName /\ artifacts = <<>>
    /\ calls = <<>> /\ prompts = <<>> /\ env_file = <<>> /\ result = Running
    /\ now = 0
    /\ existing \in SUBSET DiscKinds
    /\ creds \in BOOLEAN
    /\ oauth_exists \in BOOLEAN
    /\ peer \in peers

\* The name working_deployment deploys under (deploy_with_conflict_resolution).
WorkingName(base, au, fr, t) ==
    IF au THEN generate_unique_agent_name(base, "update", t)
    ELSE IF fr THEN generate_unique_agent_name(base, "recreate", t)
    ELSE base

\* The first statements of the run: main() refuses the two flags together,
\* working_deployment picks the agent name.
Begin ==
    /\ pc = "start"
    /\ IF auto_update /\ force_recreate
       THEN /\ pc' = "done" /\ result' = Rejected
            /\ UNCHANGED <<now, agent_name>>
       ELSE /\ pc' = "oauth_list" /\ result' = result
            /\ IF script = WORKING /\ (auto_update \/ force_recreate)
               THEN \E t \in now..MaxClock :
                       /\ now' = t
                       /\ agent_name' = WorkingName(base_name, auto_update,
                                                    force_recreate, t)
               ELSE UNCHANGED <<now, agent_name>>
    /\ UNCHANGED <<script, mode, auto_update, force_recreate, base_name, cognito_config,
                   configured, artifacts, calls, prompts, env_file, existing,
                   creds, oauth_exists, peer, urlVars, clVars, infoVars, nameVars>>

PROVIDER_NAME == "github-provider"

OAuthAnswers == {<<"y">>, <<" ", "Y", "E", "S">>, <<"n">>, <<>>}

\* setup_github_oauth_provider up to the create call: "ready" (return True),
\* "failed" (return False) or "create".  enhanced_deployment asks the user
\* when it runs in neither --auto-update nor --force-recreate.
OAuthOnList(scr, interactive, list_ok, exists, answer) ==
    IF list_ok /\ exists
    THEN IF scr = ENHANCED /\ interactive
         THEN IF Affirmative(answer) THEN "ready" ELSE "failed"
         ELSE "ready"
    ELSE "create"

\* OAuthAsks, mutated: every script asks about an existing provider.
OAuthAsksInEveryScript(scr, interactive, list_ok, exists) == list_ok /\ exists

\* Whether OAuthOnList asks the user.
OAuthAsks(scr, interactive, list_ok, exists) ==
    list_ok /\ exists /\ scr = ENHANCED /\ interactive

\* The create call as the provider serves it: NoError, or the error raised.
CreateOutcomes(exists) == IF exists THEN {MsgAlreadyExists} ELSE {NoError, MsgDenied}

\* OAuthOnCreate, mutated: the outcome of the create call is ignored.
OAuthOnCreateIgnoringFailure(scr, msg) == "ready"

\* setup_github_oauth_provider from the create call on.
OAuthOnCreate(scr, msg) ==
    IF msg = NoError \/ CreateErrorAccepted(scr, msg) THEN "ready" ELSE "failed"

\* Step 1 of the run, first half: the environment check and the list call.
OAuthList ==
    /\ pc = "oauth_list"
    /\ IF ~creds
       THEN /\ pc' = "done" /\ result' = FailedOAuth
            /\ UNCHANGED <<calls, prompts>>
       ELSE \E list_ok \in BOOLEAN, answer \in OAuthAnswers :
              LET interactive == ~(auto_update \/ force_recreate)
                  asked == OAuthAsks(script, interactive, list_ok, oauth_exists)
                  next  == OAuthOnList(script, interactive, list_ok, oauth_exists, answer)
              IN  /\ (~asked => answer = <<"y">>)
                  /\ calls' = Append(calls, Call(OpList, PROVIDER_NAME, list_ok,
                                                 IF list_ok THEN NoError ELSE MsgDenied,
                                                 oauth_exists))
                  /\ prompts' = IF asked THEN Append(prompts, "use_existing_provider")
                                ELSE prompts
                  /\ pc' = CASE next = "ready"  -> "identity"
                             [] next = "create" -> "oauth_create"
                             [] next = "failed" -> "done"
                  /\ result' = IF next = "failed" THEN FailedOAuth ELSE result
    /\ UNCHANGED <<script, mode, auto_update, force_recreate, base_name, agent_name,
                   cognito_config, configured, artifacts, env_file, now, existing,
                   creds, oauth_exists, peer, urlVars, clVars, infoVars, nameVars>>

\* Step 1 of the run, second half: the create call.
OAuthCreate ==
    /\ pc = "oauth_create"
    /\ \E msg \in CreateOutcomes(oauth_exists) :
         LET next == OAuthOnCreate(script, msg)
         IN  /\ calls' = Append(calls, Call(OpCreate, PROVIDER_NAME, msg = NoError, msg,
                                            oauth_exists))
             /\ oauth_exists' = (oauth_exists \/ msg = NoError)
             /\ pc' = IF next = "ready" THEN "identity" ELSE "done"
             /\ result' = IF next = "ready" THEN result ELSE FailedOAuth
    /\ UNCHANGED <<script, mode, auto_update, force_recreate, base_name, agent_name,
                   cognito_config, configured, artifacts, prompts, env_file, now,
                   existing, creds, peer, urlVars, clVars, infoVars, nameVars>>

\* The same stage in a second deployment run that shares the provider.
PeerOAuthList ==
    /\ peer.pc = "oauth_list"
    /\ \E list_ok \in BOOLEAN, answer \in OAuthAnswers :
         LET asked == OAuthAsks(peer.script, peer.interactive, list_ok, oauth_exists)
             next  == OAuthOnList(peer.script, peer.interactive, list_ok, oauth_exists,
                                  answer)
         IN  /\ (~asked => answer = <<"y">>)
             /\ peer' = [peer EXCEPT !.pc = IF next = "create" THEN "oauth_create" ELSE next]
    /\ UNCHANGED <<script, mode, auto_update, force_recreate, base_name, agent_name, pc,
                   cognito_config, configured, artifacts, calls, prompts, env_file,
                   result, now, existing, creds, oauth_exists, urlVars, clVars, infoVars, nameVars>>

PeerOAuthCreate ==
    /\ peer.pc = "oauth_create"
    /\ \E msg \in CreateOutcomes(oauth_exists) :
         /\ peer' = [peer EXCEPT !.pc = OAuthOnCreate(peer.script, msg), !.msg = msg]
         /\ oauth_exists' = (oauth_exists \/ msg = NoError)
    /\ UNCHANGED <<script, mode, auto_update, force_recreate, base_name, agent_name, pc,
                   cognito_config, configured, artifacts, calls, prompts, env_file,
                   result, now, existing, creds, urlVars, clVars, infoVars, nameVars>>

\* setup_cognito_auth: what the caller gets for each outcome of
\* setup_cognito_user_pool ("ok", "none": it returned nothing, "exception").
setup_cognito_auth(out) == IF out = "ok" THEN "real" ELSE "placeholder"

CognitoOutcomes == {"ok", "none", "exception"}

\* Step 2 of enhanced_deployment and simple_enhanced_deployment; in
\* working_deployment the first half of configure_agentcore_runtime, which
\* returns False before any call when no region is configured.
Identity ==
    /\ pc = "identity"
    /\ \E out \in CognitoOutcomes \cup {"no_region"} :
         /\ (out = "no_region" => script = WORKING)
         /\ IF out = "no_region"
            THEN /\ pc' = "done" /\ result' = FailedConfigure
                 /\ UNCHANGED <<calls, cognito_config>>
            ELSE /\ calls' = Append(calls, Call(OpCognito, "", out = "ok",
                                                IF out = "exception" THEN MsgDenied
                                                ELSE NoError, FALSE))
                 /\ cognito_config' = setup_cognito_auth(out)
                 /\ pc' = "configure"
                 /\ UNCHANGED result
    /\ UNCHANGED <<script, mode, auto_update, force_recreate, base_name, agent_name,
                   configured, artifacts, prompts, env_file, now, existing, creds,
                   oauth_exists, peer, urlVars, clVars, infoVars, nameVars>>

\* ConfigureName, mutated: every script configures under the constant.
ConfigureDefaultName(scr, name) == AGENT_NAME

\* The agent_name handed to the first Runtime.configure of the run.
ConfigureName(scr, name) == IF scr = WORKING THEN AGENT_NAME ELSE name

\* Step 3: configure_runtime (enhanced, simple), or the second half of
\* configure_agentcore_runtime (working), which configures under AGENT_NAME.
Configure ==
    /\ pc = "configure"
    /\ \E out \in {"ok", "no_region", "exception"} :
         LET name == ConfigureName(script, agent_name)
         IN  /\ (out = "no_region" => script # WORKING)
             /\ calls' = IF out = "no_region" THEN calls
                         ELSE Append(calls, Call(OpConfigure, name, out = "ok",
                                                 IF out = "ok" THEN NoError ELSE MsgDenied,
                                                 cognito_config = "placeholder"))
             /\ configured' = IF out = "ok" THEN name ELSE configured
             /\ pc' = IF out # "ok" THEN "done"
                      ELSE CASE script = ENHANCED -> "discover"
                             [] script = SIMPLE   -> "launch"
                             [] script = WORKING  -> "identity2"
             /\ result' = IF out = "ok" THEN result ELSE FailedConfigure
    /\ UNCHANGED <<script, mode, auto_update, force_recreate, base_name, agent_name,
                   cognito_config, artifacts, prompts, env_file, now, existing, creds,
                   oauth_exists, peer, urlVars, clVars, infoVars, nameVars>>

\* working_deployment: cognito_config = setup_cognito_user_pool(), checked.
Identity2 ==
    /\ pc = "identity2"
    /\ \E out \in CognitoOutcomes :
         /\ calls' = Append(calls, Call(OpCognito, "", out = "ok",
                                        IF out = "exception" THEN MsgDenied ELSE NoError,
                                        FALSE))
         /\ cognito_config' = IF out = "ok" THEN "real" ELSE cognito_config
         /\ pc' = IF out = "ok" THEN "configure2" ELSE "done"
         /\ result' = CASE out = "ok"        -> result
                        [] out = "none"      -> FailedIdentity
                        [] out = "exception" -> FailedConfigure
    /\ UNCHANGED <<script, mode, auto_update, force_recreate, base_name, agent_name,
                   configured, artifacts, prompts, env_file, now, existing, creds,
                   oauth_exists, peer, urlVars, clVars, infoVars, nameVars>>

\* working_deployment: Runtime().configure(agent_name=agent_name).
Configure2 ==
    /\ pc = "configure2"
    /\ \E ok \in BOOLEAN :
         /\ calls' = Append(calls, Call(OpConfigure, agent_name, ok,
                                        IF ok THEN NoError ELSE MsgDenied,
                                        cognito_config = "placeholder"))
         /\ configured' = IF ok THEN agent_name ELSE configured
         /\ pc' = IF ok THEN "launch" ELSE "done"
         /\ result' = IF ok THEN result ELSE FailedConfigure
    /\ UNCHANGED <<script, mode, auto_update, force_recreate, base_name, agent_name,
                   cognito_config, artifacts, prompts, env_file, now, existing, creds,
                   oauth_exists, peer, urlVars, clVars, infoVars, nameVars>>

DiscOrder == <<EcrRepository, IamRole, LambdaFunction>>

DescribeMethod(kind) ==
    CASE kind = EcrRepository  -> "describe_repositories"
      [] kind = IamRole        -> "get_role"
      [] kind = LambdaFunction -> "get_function"

\* check_existing_deployment, mutated: what is found is deleted at once.
check_existing_deployment_deleting(name, exist, errs) ==
    LET Hit(kind) == kind \in exist /\ kind \notin errs
        found == SelectSeq(DiscOrder, Hit)
    IN  [artifacts |-> <<>>,
         log |-> [i \in 1..Len(found) |->
                     Call(DeleteMethod(found[i]), name, TRUE, NoError, TRUE)]]

\* check_existing_deployment, mutated: the first lookup that raises something
\* other than not-found ends the discovery.
check_existing_deployment_aborting(name, exist, errs) ==
    LET Before(kind) == \A j \in 1..Len(DiscOrder) :
                            DiscOrder[j] \in errs =>
                                \E i \in 1..j : DiscOrder[i] = kind
        Found(kind) == kind \in exist /\ kind \notin errs /\ Before(kind)
        asked == SelectSeq(DiscOrder, Before)
    IN  [artifacts |-> SelectSeq(DiscOrder, Found),
         log |-> [i \in 1..Len(asked) |->
                     Call(DescribeMethod(asked[i]), name, asked[i] \notin errs,
                          IF asked[i] \in errs THEN MsgDenied ELSE NoError,
                          asked[i] \in exist)]]

\* check_existing_deployment: the lookups of the kinds in `errs` raise something
\* other than not-found; the artifacts are the kinds found, in lookup order.
check_existing_deployment(name, exist, errs) ==
    LET Found(kind) == kind \in exist /\ kind \notin errs
    IN  [artifacts |-> SelectSeq(DiscOrder, Found),
         log |-> [i \in 1..Len(DiscOrder) |->
                     Call(DescribeMethod(DiscOrder[i]), name, DiscOrder[i] \notin errs,
                          IF DiscOrder[i] \in errs THEN MsgDenied ELSE NoError,
                          DiscOrder[i] \in exist)]]

\* deploy_agent of enhanced_deployment, up to handle_existing_artifacts.
Discover ==
    /\ pc = "discover"
    /\ \E errs \in SUBSET DiscKinds :
         LET got == check_existing_deployment(agent_name, existing, errs)
         IN  /\ artifacts' = got.artifacts
             /\ calls' = calls \o got.log
             /\ pc' = IF got.artifacts = <<>> THEN "launch" ELSE "resolve"
    /\ UNCHANGED <<script, mode, auto_update, force_recreate, base_name, agent_name,
                   cognito_config, configured, prompts, env_file, result, now, existing,
                   creds, oauth_exists, peer, urlVars, clVars, infoVars, nameVars>>

Choices == {"1", "2", "3", "4", "x"}

\* handle_existing_artifacts on a non-empty list: one pass of its decision.
\* ret is "True", "False" or "again" (the input loop goes round once more).
handle_existing_artifacts(name, au, fr, choice, new_name) ==
    IF fr \/ au
    THEN [ret |-> "True", agent_name |-> name, auto_update |-> au, force_recreate |-> fr,
          asked |-> <<>>]
    ELSE CASE choice = "1" ->
                [ret |-> "True", agent_name |-> name, auto_update |-> TRUE,
                 force_recreate |-> fr, asked |-> <<"choice">>]
           [] choice = "2" ->
                [ret |-> "True", agent_name |-> name, auto_update |-> au,
                 force_recreate |-> TRUE, asked |-> <<"choice">>]
           [] choice = "3" ->
                [ret |-> "False", agent_name |-> name, auto_update |-> au,
                 force_recreate |-> fr, asked |-> <<"choice">>]
           [] choice = "4" ->
                [ret |-> IF new_name # "" THEN "True" ELSE "again",
                 agent_name |-> IF new_name # "" THEN new_name ELSE name,
                 auto_update |-> au, force_recreate |-> fr,
                 asked |-> <<"choice", "new_name">>]
           [] OTHER ->
                [ret |-> "again", agent_name |-> name, auto_update |-> au,
                 force_recreate |-> fr, asked |-> <<"choice">>]

\* deploy_agent of enhanced_deployment: handle_existing_artifacts.
Resolve ==
    /\ pc = "resolve"
    /\ \E choice \in Choices, new_name \in NewNames :
         LET d == handle_existing_artifacts(agent_name, auto_update, force_recreate,
                                            choice, new_name)
         IN  /\ (d.asked = <<>> => choice = "1")
             /\ (choice # "4" => new_name = "")
             /\ (d.ret = "again" => Len(prompts) + Len(d.asked) < MaxPrompts)
             /\ prompts' = prompts \o d.asked
             /\ agent_name' = d.agent_name
             /\ auto_update' = d.auto_update
             /\ force_recreate' = d.force_recreate
             /\ pc' = CASE d.ret = "True"  -> "launch"
                        [] d.ret = "False" -> "done"
                        [] d.ret = "again" -> "resolve"
             /\ result' = IF d.ret = "False" THEN Cancelled ELSE result
    /\ UNCHANGED <<script, mode, base_name, cognito_config, configured, artifacts, calls,
                   env_file, now, existing, creds, oauth_exists, peer, urlVars, clVars, infoVars, nameVars>>

EnvLine(key, value) == [key |-> key, value |-> value]

\* What the failure branch of the launch step appends to .env.
LaunchFailureEnv(scr, base, au, fr, msg, t) ==
    IF scr = SIMPLE /\ IsConflictError(scr, msg) /\ (au \/ fr)
    THEN <<EnvLine("", ""), EnvLine("#", "Auto-generated agent name from conflict resolution"),
           EnvLine("AGENT_NAME",
                   generate_unique_agent_name(base, IF au THEN "update" ELSE "recreate", t))>>
    ELSE <<>>

\* What the success branch of the launch step appends to .env.
LaunchSuccessEnv(scr, base, name) ==
    IF scr = WORKING /\ name # base
    THEN <<EnvLine("", ""), EnvLine("#", "Auto-generated agent name from conflict resolution"),
           EnvLine("DEPLOYED_AGENT_NAME", name)>>
    ELSE <<>>

\* The exit code of the deployment command, mutated: always 0.
ExitCodeAlwaysZero(scr, res) == IF res = Running THEN NoExit ELSE "0"

\* The exit code of the deployment command: sys.exit(1) on the two flags
\* together, otherwise 0 when the run returned success and 1 when it did not.
ExitCode(scr, res) ==
    CASE res = Running  -> NoExit
      [] res = Launched -> "0"
      [] OTHER          -> "1"

\* Step 4: agentcore_runtime.launch() and the handling of its error.
Launch ==
    /\ pc = "launch"
    /\ \E msg \in {NoError} \cup LaunchErrors, t \in now..MaxClock, write_ok \in BOOLEAN :
         LET lines == IF msg = NoError
                      THEN LaunchSuccessEnv(script, base_name, agent_name)
                      ELSE LaunchFailureEnv(script, agent_name, auto_update,
                                            force_recreate, msg, t)
             reads_clock == msg # NoError /\ script = SIMPLE /\ IsConflictError(script, msg)
             attempt == Call(OpLaunch, configured, msg = NoError, msg,
                             configured = base_name /\ existing # {})
         IN  /\ (~reads_clock => t = now)
             /\ (lines = <<>> => write_ok)
             /\ now' = t
             /\ calls' = Append(calls, attempt)
             /\ env_file' = IF write_ok THEN env_file \o lines ELSE env_file
             /\ result' = IF msg = NoError THEN Launched ELSE FailedLaunch
    /\ pc' = "done"
    /\ UNCHANGED <<script, mode, auto_update, force_recreate, base_name, agent_name,
                   cognito_config, configured, artifacts, prompts, existing, creds,
                   oauth_exists, peer, urlVars, clVars, infoVars, nameVars>>

----------------------------------------------------------------------------
(* get_agent_info.py and find_endpoint.py *)

NoCommand == "none"
NoEndpoint == [found |-> FALSE, url |-> <<>>]
Endpoint(u) == [found |-> TRUE, url |-> u]
None == [none |-> TRUE]

\* Agent names are sequences of characters here: the code lower-cases them
\* and replaces their underscores.
SbomUnderscore == <<"s", "b", "o", "m", "_", "s", "e", "c", "u", "r", "i", "t", "y", "_",
                    "a", "g", "e", "n", "t">>
SbomHyphen     == <<"s", "b", "o", "m", "-", "s", "e", "c", "u", "r", "i", "t", "y", "-",
                    "a", "g", "e", "n", "t">>
SbomMixedCase  == <<"S", "B", "O", "M", "_", "S", "e", "c", "u", "r", "i", "t", "y", "_",
                    "A", "g", "e", "n", "t">>
MyAgent        == <<"m", "y", "-", "a", "g", "e", "n", "t">>
InfoNames == {SbomUnderscore, SbomHyphen, SbomMixedCase, MyAgent}
SaveNames == {SbomHyphen, SbomUnderscore}

\* str.replace(a, b) for one-character a and b.
Replace(s, a, b) == [i \in 1..Len(s) |-> IF s[i] = a THEN b ELSE s[i]]

\* agent_name.lower().replace('_', '-')
NormalizeName(name) == Replace(Lower(name), "_", "-")

RuntimePrefix == <<"agentcore-runtime-">>
RolePrefix    == <<"AgentCoreRuntimeRole-">>

\* Keeps what name.replace('agentcore-runtime-', '') keeps.
IsNotRuntimePrefix(t) == t # "agentcore-runtime-"

\* The resource name each lookup asks the provider for.
ResourceName(kind, name) ==
    CASE kind = EcrRepository  -> RuntimePrefix \o NormalizeName(name)
      [] kind = LambdaFunction -> RuntimePrefix \o NormalizeName(name)
      [] kind = IamRole        -> RolePrefix \o name

Regions == {<<>>, <<"us-east-1">>}

\* A lookup finds the resource, gets the not-found answer, or fails otherwise.
ResFound  == "found"
ResAbsent == "absent"
ResError == "error"
LookupOutcomes == {ResFound, ResAbsent, ResError}

Lookup(op, name, outcome) == [op |-> op, name |-> name, outcome |-> outcome]

\* The endpoint find_agent_info builds from the agent id and the region.
EndpointUrl(agent_id, region) ==
    HttpsPrefix \o agent_id \o <<".", "bedrock-agentcore", ".">> \o region
        \o <<".", "amazonaws", ".", "com">> \o InvocationsPath

\* find_agent_info: the registry is looked up first, the function only when
\* the registry gave no agent id.
find_agent_info(name, region, ecr, lam) ==
    IF region = <<>> THEN [calls |-> <<>>, info |-> None]
    ELSE LET repo_name == ResourceName(EcrRepository, name)
             function_name == ResourceName(LambdaFunction, name)
             ecr_call == Lookup(DescribeMethod(EcrRepository), repo_name, ecr)
             lam_call == Lookup(DescribeMethod(LambdaFunction), function_name, lam)
             agent_id == SelectSeq(repo_name, IsNotRuntimePrefix)
             info == [agent_id |-> agent_id, agent_name |-> name,
                      endpoint_url |-> EndpointUrl(agent_id, region), region |-> region]
         IN  IF ecr = ResFound THEN [calls |-> <<ecr_call>>, info |-> info]
             ELSE IF lam = ResFound THEN [calls |-> <<ecr_call, lam_call>>, info |-> info]
             ELSE [calls |-> <<ecr_call, lam_call>>, info |-> None]

\* find_cognito_info: the pool named MCPServerPool and its first client.
find_cognito_info(region, pool_found) ==
    IF pool_found
    THEN [pool_id |-> "pool-1", client_id |-> "client-1",
          discovery_url |-> <<"https://cognito-idp.">> \o region
                              \o <<".amazonaws.com/", "pool-1",
                                   "/.well-known/openid-configuration">>]
    ELSE None


EndpointVars == <<"AGENT_ENDPOINT", "AGENTCORE_ENDPOINT", "BEDROCK_AGENT_ENDPOINT",
                  "AGENT_URL", "INVOKE_URL", "ENDPOINT_URL">>
EndpointVarSet == {EndpointVars[i] : i \in DOMAIN EndpointVars}
EmptyEnviron == [v \in EndpointVarSet |-> <<>>]

\* The value an endpoint variable holds when it is set.
EnvValue(v) == HttpsPrefix \o <<v>> \o InvocationsPath
Environs ==
    {[v \in EndpointVarSet |->
         IF v \in bad THEN <<"/">> ELSE IF v \in set THEN EnvValue(v) ELSE <<>>] :
       set \in SUBSET EndpointVarSet, bad \in SUBSET {"INVOKE_URL"}}

InfoInit ==
    /\ info_cmd = NoCommand /\ os_environ \in Environs /\ info_calls = <<>>
    /\ info_consulted = <<>> /\ info_asked = <<>> /\ info_out = NoEndpoint
    /\ info_exit = NoExit

Override   == "override"
Deployment == "deployment"
Discovery  == "discovery"
Manual     == "manual"
Consult(source, var) == [source |-> source, var |-> var]

YamlStates == {"absent", "present", "unreadable"}

\* try_get_endpoint_from_deployment, mutated: every variable is read and the
\* last one that is set wins.
try_get_last_endpoint(environ, yaml) ==
    LET set == {i \in DOMAIN EndpointVars : environ[EndpointVars[i]] # <<>>}
        last == IF set = {} THEN 1 ELSE CHOOSE i \in set : \A j \in set : j <= i
    IN  [value |-> IF set = {} THEN <<>> ELSE environ[EndpointVars[last]],
         read  |-> [i \in 1..Len(EndpointVars) |-> Consult(Deployment, EndpointVars[i])]]

\* try_get_endpoint_from_deployment: the variables are read in the order of
\* the list up to the first that is set; an unreadable .bedrock_agentcore.yaml
\* raises before any is read.
try_get_endpoint_from_deployment(environ, yaml) ==
    IF yaml = "unreadable"
    THEN [value |-> <<>>, read |-> <<Consult(Deployment, ".bedrock_agentcore.yaml")>>]
    ELSE LET set == {i \in DOMAIN EndpointVars : environ[EndpointVars[i]] # <<>>}
             first == IF set = {} THEN Len(EndpointVars) + 1
                      ELSE CHOOSE i \in set : \A j \in set : i <= j
         IN  [value |-> IF set = {} THEN <<>> ELSE environ[EndpointVars[first]],
              read  |-> [i \in 1..(IF set = {} THEN Len(EndpointVars) ELSE first) |->
                            Consult(Deployment, EndpointVars[i])]]

\* find_endpoint.py main().
FindEndpoint ==
    /\ info_cmd = NoCommand
    /\ \E yaml \in YamlStates, region \in Regions, ecr \in LookupOutcomes,
          lam \in LookupOutcomes :
         LET endpoint == os_environ["AGENT_ENDPOINT"]
             dep == try_get_endpoint_from_deployment(os_environ, yaml)
             agent == find_agent_info(SbomHyphen, region, ecr, lam)
             first == <<Consult(Override, "AGENT_ENDPOINT")>>
         IN  /\ (ecr = ResFound \/ region = <<>> => lam = ResAbsent)
             /\ (region = <<>> => ecr = ResAbsent)
             /\ IF endpoint # <<>>
                THEN /\ yaml = "absent" /\ region = <<>>
                     /\ info_consulted' = first
                     /\ info_calls' = <<>>
                     /\ info_out' = Endpoint(endpoint)
                     /\ info_exit' = "0"
                ELSE IF dep.value # <<>>
                THEN /\ region = <<>>
                     /\ info_consulted' = first \o dep.read
                     /\ info_calls' = <<>>
                     /\ info_out' = Endpoint(dep.value)
                     /\ info_exit' = "0"
                ELSE /\ info_consulted' = first \o dep.read
                                             \o <<Consult(Discovery, "find_agent_info")>>
                     /\ info_calls' = agent.calls
                     /\ info_out' = IF agent.info = None THEN NoEndpoint
                                    ELSE Endpoint(agent.info.endpoint_url)
                     /\ info_exit' = IF agent.info = None THEN "1" ELSE "0"
    /\ info_cmd' = "find_endpoint"
    /\ UNCHANGED <<os_environ, info_asked, urlVars, clVars, depVars, nameVars>>

\* What the user types at "Enter your agent endpoint URL".
TypedInputs == {<<>>, <<"/">>, <<"h">>, HttpsPrefix \o <<"h">> \o InvocationsPath}
UseAnswers == {<<"y">>, <<" ", "Y", "E", "S">>, <<"n">>, <<>>}

\* The input loop of get_endpoint_url_from_user over the typed lines: the
\* prompts it shows and the URL it returns at the first line that validates.
RECURSIVE EndpointLoop(_)
EndpointLoop(typed) ==
    LET line == Strip(Head(typed))
        v == validate_endpoint_url(line)
        rest == EndpointLoop(Tail(typed))
    IN  IF line = <<>>
        THEN [asked |-> <<"endpoint_url", "retry_help">> \o rest.asked, url |-> rest.url]
        ELSE IF ~v.ok
        THEN [asked |-> <<"endpoint_url">> \o rest.asked, url |-> rest.url]
        ELSE [asked |-> <<"endpoint_url">>, url |-> v.url]

\* get_endpoint_url_from_user() of get_agent_info.py.
GetEndpointFromUser ==
    /\ info_cmd = NoCommand
    /\ \E yaml \in YamlStates, region \in Regions, ecr \in LookupOutcomes,
          lam \in LookupOutcomes, answer \in UseAnswers,
          t1 \in TypedInputs, t2 \in TypedInputs :
         LET dep == try_get_endpoint_from_deployment(os_environ, yaml)
             agent == find_agent_info(SbomHyphen, region, ecr, lam)
             discovered == dep.value = <<>> /\ agent.info # None
             auto_endpoint == IF dep.value # <<>> THEN dep.value
                              ELSE IF discovered THEN agent.info.endpoint_url
                              ELSE <<>>
             v == validate_endpoint_url(auto_endpoint)
             accepted == auto_endpoint # <<>> /\ Affirmative(answer) /\ v.ok
             loop == EndpointLoop(<<t1, t2>>)
             consulted == dep.read \o (IF dep.value = <<>>
                                       THEN <<Consult(Discovery, "find_agent_info")>>
                                       ELSE <<>>)
         IN  /\ (ecr = ResFound \/ region = <<>> => lam = ResAbsent)
             /\ (region = <<>> => ecr = ResAbsent)
             /\ (dep.value # <<>> => region = <<>>)
             /\ (auto_endpoint = <<>> => answer = <<>>)
             /\ validate_endpoint_url(Strip(t2)).ok /\ Strip(t2) # <<>>
             /\ (accepted => t1 = t2)
             /\ (validate_endpoint_url(Strip(t1)).ok /\ Strip(t1) # <<>> => t1 = t2)
             /\ info_calls' = IF dep.value = <<>> THEN agent.calls ELSE <<>>
             /\ info_consulted' = IF accepted THEN consulted
                                  ELSE consulted \o <<Consult(Manual, "input")>>
             /\ info_asked' = (IF auto_endpoint # <<>> THEN <<"use_detected">> ELSE <<>>)
                                 \o (IF accepted THEN <<>>
                                     ELSE <<"need_help">> \o loop.asked)
             /\ info_out' = Endpoint(IF accepted THEN v.url ELSE loop.url)
    /\ info_cmd' = "get_endpoint_url_from_user"
    /\ UNCHANGED <<os_environ, info_exit, urlVars, clVars, depVars, nameVars>>

SavedKeys == {"AGENT_ENDPOINT", "AGENT_ID", "AGENT_NAME", "AWS_REGION",
              "COGNITO_CLIENT_ID", "COGNITO_POOL_ID", "COGNITO_DISCOVERY_URL"}

IsNotSavedKey(line) == line.key \notin SavedKeys

\* save_agent_info_to_env: the lines of the seven keys are dropped, the new
\* ones are put at the end.
save_agent_info_to_env(content, agent_info, cognito_info) ==
    SelectSeq(content, IsNotSavedKey)
        \o <<EnvLine("AGENT_ENDPOINT", agent_info.endpoint_url),
             EnvLine("AGENT_ID", agent_info.agent_id),
             EnvLine("AGENT_NAME", agent_info.agent_name),
             EnvLine("AWS_REGION", agent_info.region)>>
        \o (IF cognito_info # None
            THEN <<EnvLine("COGNITO_CLIENT_ID", cognito_info.client_id),
                   EnvLine("COGNITO_POOL_ID", cognito_info.pool_id),
                   EnvLine("COGNITO_DISCOVERY_URL", cognito_info.discovery_url)>>
            ELSE <<>>)

InfoIdle ==
    /\ info_cmd = NoCommand /\ os_environ = EmptyEnviron /\ info_calls = <<>>
    /\ info_consulted = <<>> /\ info_asked = <<>> /\ info_out = NoEndpoint
    /\ info_exit = NoExit

\* Writers run while .env has at most this many lines.
MaxEnvLines == 3

\* get_agent_info.py --save-env, run before a deployment run starts.
SaveEnv ==
    /\ pc = "start"
    /\ Len(env_file) <= MaxEnvLines
    /\ \E name \in SaveNames, region \in Regions, ecr \in LookupOutcomes,
          lam \in LookupOutcomes, pool_found \in BOOLEAN, write_ok \in BOOLEAN :
         LET agent == find_agent_info(name, region, ecr, lam)
             cognito_info == find_cognito_info(region, pool_found)
         IN  /\ (ecr = ResFound => lam = ResAbsent)
             /\ (region = <<>> => ecr = ResAbsent /\ lam = ResAbsent)
             /\ (agent.info = None => write_ok)
             /\ info_cmd' = "save_env"
             /\ info_calls' = agent.calls
             /\ info_consulted' = <<"discovery">>
             /\ info_asked' = <<>>
             /\ info_out' = IF agent.info = None THEN NoEndpoint
                            ELSE Endpoint(agent.info.endpoint_url)
             /\ env_file' = IF agent.info # None /\ write_ok
                            THEN save_agent_info_to_env(env_file, agent.info, cognito_info)
                            ELSE env_file
             /\ info_exit' = IF agent.info # None /\ write_ok THEN "0" ELSE "1"
    /\ UNCHANGED <<script, mode, auto_update, force_recreate, base_name, agent_name, pc,
                   cognito_config, configured, artifacts, calls, prompts, result, now,
                   existing, creds, oauth_exists, peer, os_environ, urlVars, clVars,
                   nameVars>>

\* The deployment command is run again; .env, the clock and the provider
\* stay as the run before left them.
Rerun ==
    /\ pc = "done"
    /\ Len(env_file) <= MaxEnvLines
    /\ script' \in {SIMPLE, WORKING}
    /\ mode' \in PolicyModes
    /\ auto_update' = (mode' = AutoUpdate)
    /\ force_recreate' = (mode' = ForceRecreate)
    /\ agent_name' = base_name
    /\ pc' = "start"
    /\ cognito_config' = "none" /\ configured' = NoName /\ artifacts' = <<>>
    /\ calls' = <<>> /\ prompts' = <<>> /\ result' = Running
    /\ UNCHANGED <<base_name, env_file, now, existing, creds, oauth_exists, peer, urlVars,
                   clVars, infoVars, nameVars>>

----------------------------------------------------------------------------
(* Name derivation on character sequences *)

NamePending == [op |-> "pending"]
NameIdle == name_in = <<>> /\ name_out = NamePending

\* Two decimal digits, zero padded (%m, %d, %H, %M, %S).
TwoDigits(n) == <<DigitStr[((n \div 10) % 10) + 1], DigitStr[(n % 10) + 1]>>

\* The local clock t seconds after 2025-01-01 00:00:00, broken down.
ClockFields(t) ==
    [year |-> <<"2", "0", "2", "5">>, month |-> 1, day |-> 1 + (t \div 86400),
     hour |-> (t \div 3600) % 24, minute |-> (t \div 60) % 60, second |-> t % 60]

\* datetime.strftime("%Y%m%d_%H%M%S")
strftime(d) ==
    d.year \o TwoDigits(d.month) \o TwoDigits(d.day) \o <<"_">>
        \o TwoDigits(d.hour) \o TwoDigits(d.minute) \o TwoDigits(d.second)

UpdateWord   == <<"u", "p", "d", "a", "t", "e">>
RecreateWord == <<"r", "e", "c", "r", "e", "a", "t", "e">>
AutoWord     == <<"a", "u", "t", "o">>
ModeWords == {UpdateWord, RecreateWord, AutoWord}

\* generate_unique_agent_name, mutated: the timestamp stops at the minute.
GenerateNameToTheMinute(base, m, t) ==
    base \o <<"_">> \o m \o <<"_">>
        \o SubSeq(strftime(ClockFields(t)), 1, 13) \o <<"0", "0">>

\* generate_unique_agent_name on character sequences:
\* f"{base_name}_{mode}_{timestamp}" with the clock reading t.
GenerateName(base, m, t) ==
    base \o <<"_">> \o m \o <<"_">> \o strftime(ClockFields(t))

\* Clock readings around the carries of the second, minute, hour and day.
NameTimes == {0, 1, 9, 10, 59, 60, 3599, 3600, 86399, 86400}

NameInit ==
    /\ name_in \in [base : InfoNames, other : InfoNames, mode : ModeWords,
                    t1 : NameTimes, t2 : NameTimes]
    /\ name_in.t1 <= name_in.t2
    /\ name_out = NamePending

\* generate_unique_agent_name called at t1 and again at t2.
Generate ==
    /\ name_out = NamePending
    /\ name_out' = [op |-> "generate",
                    first  |-> GenerateName(name_in.base, name_in.mode, name_in.t1),
                    second |-> GenerateName(name_in.base, name_in.mode, name_in.t2)]
    /\ UNCHANGED <<name_in, urlVars, clVars, depVars, infoVars>>

\* The resource names check_existing_deployment looks up for two agent names.
Derive ==
    /\ name_out = NamePending
    /\ name_out' = [op |-> "derive",
                    first  |-> [k \in DiscKinds |-> ResourceName(k, name_in.base)],
                    second |-> [k \in DiscKinds |-> ResourceName(k, name_in.other)]]
    /\ UNCHANGED <<name_in, urlVars, clVars, depVars, infoVars>>

----------------------------------------------------------------------------
(* Specifications *)

\* One deployment run.
Init == DepInit({PeerOff}) /\ UrlIdle /\ ClIdle /\ InfoIdle /\ NameIdle

Next ==
    \/ Begin
    \/ OAuthList
    \/ OAuthCreate
    \/ Identity
    \/ Configure
    \/ Identity2
    \/ Configure2
    \/ Discover
    \/ Resolve
    \/ Launch

Spec == Init /\ [][Next]_vars

\* The OAuth stage of two deployment runs that share the provider.
InitOAuth ==
    /\ DepInit({p \in Peers : p.script = ENHANCED \/ ~p.interactive})
    /\ UrlIdle /\ ClIdle /\ InfoIdle /\ NameIdle

NextOAuth ==
    \/ Begin
    \/ OAuthList
    \/ OAuthCreate
    \/ PeerOAuthList
    \/ PeerOAuthCreate

SpecOAuth == InitOAuth /\ [][NextOAuth]_vars

\* One deployment run that is not suspended for ever: each statement of the
\* script is executed in the end.
SpecLive == Init /\ [][Next]_vars /\ WF_vars(Next)

InitCleanup == ClInit /\ UrlIdle /\ DepIdle /\ InfoIdle /\ NameIdle

NextCleanup ==
    \/ ClList
    \/ ClConfirm
    \/ ClStep
    \/ ClFinish

SpecCleanup == InitCleanup /\ [][NextCleanup]_vars

InitUrl == UrlInit /\ ClIdle /\ DepIdle /\ InfoIdle /\ NameIdle

NextUrl == Validate

SpecUrl == InitUrl /\ [][NextUrl]_vars

\* Deployment runs and get_agent_info.py --save-env, one after the other, on
\* the same .env file.
InitEnv ==
    /\ DepInit({PeerOff})
    /\ script \in {SIMPLE, WORKING} /\ base_name = AGENT_NAME
    /\ existing = {} /\ creds
    /\ UrlIdle /\ ClIdle /\ InfoIdle /\ NameIdle

NextEnv ==
    \/ Begin
    \/ OAuthList
    \/ OAuthCreate
    \/ Identity
    \/ Configure
    \/ Identity2
    \/ Configure2
    \/ Launch
    \/ Rerun
    \/ SaveEnv

SpecEnv == InitEnv /\ [][NextEnv]_vars

\* The endpoint is resolved once, by find_endpoint.py or by
\* get_endpoint_url_from_user.
InitInfo == InfoInit /\ UrlIdle /\ ClIdle /\ DepIdle /\ NameIdle

NextInfo ==
    \/ FindEndpoint
    \/ GetEndpointFromUser

SpecInfo == InitInfo /\ [][NextInfo]_vars

\* Names are derived once from bounded arguments.
InitNames == NameInit /\ UrlIdle /\ ClIdle /\ DepIdle /\ InfoIdle

NextNames ==
    \/ Generate
    \/ Derive

SpecNames == InitNames /\ [][NextNames]_vars

\* The cleanup command run with --execute, and run once more afterwards.
InitRetry == InitCleanup /\ cl_execute /\ cl_region

NextRetry ==
    \/ ClList
    \/ ClConfirm
    \/ ClStep
    \/ ClFinish
    \/ ClRerun

SpecRetry == InitRetry /\ [][NextRetry]_vars

\* The discovery of each command: a deployment run, the listing of a cleanup,
\* or find_endpoint.py.
InitDiscovery ==
    \/ Init
    \/ InitCleanup
    \/ InitInfo

\* find_endpoint.py run on its own, with no deployment or cleanup under way.
FindEndpointAlone == pc = "off" /\ cl_pc = "off" /\ FindEndpoint

NextDiscovery ==
    \/ Next
    \/ ClList
    \/ FindEndpointAlone

SpecDiscovery == InitDiscovery /\ [][NextDiscovery]_vars

----------------------------------------------------------------------------
(* Properties of the deployment run *)

LaunchCalls == {i \in DOMAIN calls : calls[i].op = OpLaunch}
OAuthOps == {OpList, OpCreate}
DescribeOps == {DescribeMethod(k) : k \in DiscKinds}

\* The names generate_unique_agent_name can have produced for base by now.
GeneratedNames(base, m) == {base \o "_" \o m \o "_" \o Timestamp(t) : t \in 0..now}

C2_ForceRecreateRenames ==
    (existing # {} /\ mode = ForceRecreate) =>
        \A i \in LaunchCalls : calls[i].name # base_name

\* C3 as stated: with a resource existing for the requested name and mode
\* AutoUpdate, the deployment uses a freshly generated name, so nothing is
\* launched under the requested name.
C3_AutoUpdateRenames ==
    (existing # {} /\ mode = AutoUpdate) =>
        \A i \in LaunchCalls :
            /\ calls[i].name # base_name
            /\ calls[i].name \in GeneratedNames(base_name, "update")

\* The stage a provider call belongs to.
StageOf(op) ==
    CASE op \in OAuthOps    -> 1
      [] op = OpCognito     -> 2
      [] op = OpConfigure   -> 3
      [] op \in DescribeOps -> 3
      [] op = OpLaunch      -> 4

\* The OAuth stage had returned True when call i was issued.
OAuthDoneBefore(i) ==
    \E j \in 1..(i - 1) :
        /\ calls[j].op \in OAuthOps
        /\ \A k \in (j + 1)..(i - 1) : calls[k].op \notin OAuthOps
        /\ \/ calls[j].op = OpList /\ calls[j].ok /\ calls[j].seen
           \/ calls[j].op = OpCreate
              /\ (calls[j].ok \/ CreateErrorAccepted(script, calls[j].msg))

\* C5: the stages run in the order OAuth, identity, configuration, launch: a
\* call of a stage is issued only after the stage before it has completed, a
\* launch only after a successful configuration of the runtime it launches;
\* enhanced_deployment and simple_enhanced_deployment never go back a stage.
C5_StageOrder ==
    \A i \in DOMAIN calls :
        /\ calls[i].op = OpCognito => OAuthDoneBefore(i)
        /\ calls[i].op = OpConfigure =>
               \E j \in 1..(i - 1) :
                   /\ calls[j].op = OpCognito
                   /\ \A k \in (j + 1)..(i - 1) : calls[k].op # OpCognito
        /\ calls[i].op = OpLaunch =>
               \E j \in 1..(i - 1) :
                   /\ calls[j].op = OpConfigure /\ calls[j].ok
                   /\ calls[j].name = calls[i].name
                   /\ \A k \in (j + 1)..(i - 1) : calls[k].op # OpConfigure
        /\ \A j \in 1..(i - 1) :
               \/ StageOf(calls[j].op) <= StageOf(calls[i].op)
               \/ script = WORKING /\ calls[i].op # OpLaunch /\ calls[j].op # OpLaunch
                  /\ StageOf(calls[i].op) >= 2

C5_Witness ==
    /\ result = Launched /\ script = ENHANCED
    /\ \E i, j \in DOMAIN calls : calls[i].op = OpCreate /\ calls[j].op \in DescribeOps

\* C6 as stated: a failed stage is terminal; in particular no runtime
\* configuration and no launch follows a failed identity-pool creation.
C6_FailedIdentityStops ==
    \A i, j \in DOMAIN calls :
        (i < j /\ calls[i].op = OpCognito /\ ~calls[i].ok) =>
            calls[j].op \notin {OpConfigure, OpLaunch}

\* The first launch of the run failed with a naming collision.
FirstLaunchCollided ==
    \E i \in LaunchCalls :
        /\ \A j \in LaunchCalls : i <= j
        /\ ~calls[i].ok
        /\ IsConflictError(script, calls[i].msg)

\* C8 as stated: a run launches at most twice, and in AutoUpdate or
\* ForceRecreate mode a collision on the first launch is followed by the one
\* retry before the run ends.
C8_CollisionRetriedOnce ==
    /\ Cardinality(LaunchCalls) <= 2
    /\ (pc = "done" /\ mode \in {AutoUpdate, ForceRecreate} /\ FirstLaunchCollided) =>
           Cardinality(LaunchCalls) = 2

----------------------------------------------------------------------------
(* Properties of the OAuth stage *)

\* A create call of the run failed because the provider existed already.
CreateLostRace ==
    \E i \in DOMAIN calls :
        calls[i].op = OpCreate /\ ~calls[i].ok /\ HasAlreadyExists(calls[i].msg)

\* A call of the stage was served while the provider existed.
ProviderSeen == \E i \in DOMAIN calls : calls[i].op \in OAuthOps /\ calls[i].seen

----------------------------------------------------------------------------
(* Properties of the cleanup command *)

DeleteCalls == {i \in DOMAIN cl_calls : cl_calls[i].op \in DeleteMethods}

\* C4: without --execute the cleanup command issues no delete call
\* (delete_repository, delete_function, delete_role, delete_log_group,
\* detach_role_policy, delete_role_policy), whatever the resources.
C4_DryRunDeletesNothing == ~cl_execute => DeleteCalls = {}

C4_Witness ==
    /\ ~cl_execute /\ cl_pc = "done" /\ cl_success >= 3
    /\ cl_policies.attached > 0
    /\ \E i \in DOMAIN cl_resources : cl_resources[i].requires_policy_cleanup

----------------------------------------------------------------------------
(* Properties of the endpoint helper *)

BareHosts == Hosts \ {<<>>}

\* C9 as stated: a bare host gets https:// in front and /invocations behind,
\* https://host/invocations comes back unchanged, and the empty string is
\* rejected.
C9_NormalizeExamples ==
    url_out # Pending =>
        /\ url_in \in BareHosts =>
               url_out = UrlOk(HttpsPrefix \o url_in \o InvocationsPath)
        /\ url_in \in {HttpsPrefix \o h \o InvocationsPath : h \in BareHosts} =>
               url_out = UrlOk(url_in)
        /\ url_in = <<>> => ~url_out.ok

\* C10 as stated: the path of every URL validate_endpoint_url returns ends
\* with /invocations.
C10_PathEndsWithInvocations ==
    url_out.ok => EndsWith(UrlParse(url_out.url).path, InvocationsPath)

----------------------------------------------------------------------------
(* Properties of the .env file *)

RecognizedKeys == SavedKeys \cup {"DEPLOYED_AGENT_NAME"}

LinesOf(key) == {i \in DOMAIN env_file : env_file[i].key = key}

\* C11 as stated: whatever the writers wrote, each recognized key of .env
\* is on at most one line.
C11_KeysOnOneLine == \A k \in RecognizedKeys : Cardinality(LinesOf(k)) <= 1

----------------------------------------------------------------------------
(* Properties of endpoint resolution *)

\* The rank of a source in the stated order; what the user types is the
\* explicit value.
Rank(source) ==
    CASE source = Override -> 1 [] source = Manual -> 1
      [] source = Deployment -> 2 [] source = Discovery -> 3

DiscoveryFound == \E i \in DOMAIN info_calls : info_calls[i].outcome = ResFound

\* The consulted source gave a value.
Yields(c) ==
    CASE c.source = Manual -> TRUE
      [] c.source = Discovery -> DiscoveryFound
      [] OTHER -> c.var \in EndpointVarSet /\ os_environ[c.var] # <<>>

\* The value the consulted source gave.
Yielded(c) ==
    IF c.source = Discovery
    THEN EndpointUrl(SelectSeq(info_calls[Len(info_calls)].name, IsNotRuntimePrefix),
                     <<"us-east-1">>)
    ELSE os_environ[c.var]

InOrder(consulted) ==
    \A i, j \in DOMAIN consulted :
        i < j => Rank(consulted[i].source) <= Rank(consulted[j].source)

\* The sources are consulted in order, the first that yields ends the search
\* and gives the result, and without any the result is not-found.
FirstYieldWins(consulted) ==
    /\ InOrder(consulted)
    /\ \A i \in DOMAIN consulted :
           Yields(consulted[i]) =>
               /\ i = Len(consulted)
               /\ info_out = Endpoint(Yielded(consulted[i]))
    /\ (\A i \in DOMAIN consulted : ~Yields(consulted[i])) => info_out = NoEndpoint

AutoSources(consulted) == SelectSeq(consulted, LAMBDA c : c.source # Manual)

----------------------------------------------------------------------------
(* Properties of the command line and the exit codes *)

\* C13: with --auto-update and --force-recreate both given, the deployment
\* command issues no provider call, asks nothing, writes nothing and exits
\* with code 1.
C13_BothFlagsRejected ==
    (auto_update /\ force_recreate /\ mode = BothFlags) =>
        /\ calls = <<>> /\ prompts = <<>> /\ env_file = <<>>
        /\ result \in {Running, Rejected}
        /\ pc \in {"start", "done"}
        /\ pc = "done" => ExitCode(script, result) = "1"

C13_Witness ==
    /\ mode = BothFlags /\ pc = "done" /\ script = WORKING /\ creds /\ existing # {}

\* The cleanup command asked for the confirmation and did not get 'yes'.
CleanupDeclined ==
    cl_pc = "done" /\ cl_execute /\ cl_resources # <<>> /\ cl_idx = 1

\* C14 as stated, for the cleanup command: it exits 0 exactly when it
\* succeeded, so it exits 1 when the user declined the confirmation and when
\* a deletion failed.
C14_CleanupExitCode ==
    cl_pc = "done" =>
        /\ cl_exit \in {"0", "1"}
        /\ cl_exit = "0" <=> (cl_error = 0 /\ ~CleanupDeclined)

----------------------------------------------------------------------------
(* Properties of the Standard run without per-deployment resources *)

AllCallsOk == \A i \in DOMAIN calls : calls[i].ok

\* The run of the scenario: the default name, nothing existing for it,
\* neither flag, the GitHub credentials set, ended with no failed call.
StandardScenarioDone ==
    /\ base_name = AGENT_NAME /\ existing = {} /\ mode = Standard /\ creds
    /\ pc = "done" /\ AllCallsOk

\* The run ended at the region check that precedes Runtime.configure.
RegionMissing == result = FailedConfigure /\ AllCallsOk

----------------------------------------------------------------------------
(* Properties of the derived names *)

DigitChars == {DigitStr[i] : i \in DOMAIN DigitStr}
LetterChars == {"a", "b", "c", "d", "e", "f", "g", "h", "i", "j", "k", "l", "m", "n",
                "o", "p", "q", "r", "s", "t", "u", "v", "w", "x", "y", "z"}

\* ts has the shape YYYYMMDD_HHMMSS.
IsTimestamp(ts) ==
    /\ Len(ts) = 15
    /\ ts[9] = "_"
    /\ \A i \in (1..15) \ {9} : ts[i] \in DigitChars

\* name is base, "_", the mode word, "_", and a timestamp.
HasGeneratedForm(name, base, m) ==
    LET k == Len(base) + Len(m) + 2
    IN  /\ Len(name) = k + 15
        /\ SubSeq(name, 1, k) = base \o <<"_">> \o m \o <<"_">>
        /\ IsTimestamp(SubSeq(name, k + 1, k + 15))

C17_SpellingsShareNames ==
    (name_out.op = "derive" /\ name_in.base = SbomUnderscore
        /\ name_in.other = SbomHyphen) =>
        \A k \in DiscKinds : name_out.first[k] = name_out.second[k]

----------------------------------------------------------------------------
(* Frame of the deployment run *)

DeploymentOps == {OpList, OpCreate, OpCognito, OpConfigure, OpLaunch} \cup DescribeOps

----------------------------------------------------------------------------
(* Properties of the cleanup of an identity role *)

PolicyCalls == {"list_attached_role_policies", "detach_role_policy",
                "list_role_policies", "delete_role_policy"}
ResourceDeletes == {DeleteMethod(k) : k \in Kinds}

FailedDeletes ==
    {i \in DOMAIN cl_calls : cl_calls[i].op \in ResourceDeletes /\ ~cl_calls[i].ok}
DoneDeletes ==
    {i \in DOMAIN cl_calls : cl_calls[i].op \in ResourceDeletes /\ cl_calls[i].ok}

\* C19: with --execute, delete_role is called right after the policy cleanup
\* of the role, which starts with list_attached_role_policies; a failing
\* call of the policy cleanup is followed by the delete_role call all the
\* same; and the resources counted failed are those whose own delete call
\* failed.
C19_RoleDeletedAfterPolicyCleanup ==
    cl_execute =>
        /\ \A i \in DOMAIN cl_calls :
               cl_calls[i].op = "delete_role" =>
                   \E j \in 1..(i - 1) :
                       /\ cl_calls[j].op = "list_attached_role_policies"
                       /\ \A k \in j..(i - 1) :
                              /\ cl_calls[k].op \in PolicyCalls
                              /\ cl_calls[k].name = cl_calls[i].name
                              /\ (~cl_calls[k].ok => k = i - 1)
        /\ \A j \in DOMAIN cl_calls :
               (cl_calls[j].op \in PolicyCalls /\ ~cl_calls[j].ok) =>
                   /\ j < Len(cl_calls)
                   /\ cl_calls[j + 1].op = "delete_role"
        /\ \A j \in DOMAIN cl_calls :
               cl_calls[j].op \in PolicyCalls =>
                   \E i \in (j + 1)..Len(cl_calls) : cl_calls[i].op = "delete_role"
        /\ cl_error = Cardinality(FailedDeletes)
        /\ cl_success = Cardinality(DoneDeletes)

C19_Witness ==
    /\ cl_execute /\ cl_pc = "done" /\ cl_error = 0 /\ cl_success >= 2
    /\ \E j \in DOMAIN cl_calls :
           /\ cl_calls[j].op = "detach_role_policy" /\ ~cl_calls[j].ok
           /\ cl_calls[j + 1].op = "delete_role" /\ cl_calls[j + 1].ok

RoleSteps ==
    {i \in 1..(cl_idx - 1) :
        i <= Len(cl_resources) /\ cl_resources[i].requires_policy_cleanup}

\* C20 as stated: a dry run performs the steps of an execute run but the
\* delete call, so it lists the policies of every identity role it passes.
C20_DryRunListsPolicies ==
    (~cl_execute /\ cl_pc = "cleanup" /\ RoleSteps # {}) =>
        \E j \in DOMAIN cl_calls : cl_calls[j].op = "list_attached_role_policies"

----------------------------------------------------------------------------
(* Properties of the execution of a cleanup *)

\* C21: in an --execute cleanup every listed resource passed so far has
\* exactly one delete call and the resources not reached have none; the
\* resources passed are counted once each, as deleted or as failed; a
\* resource whose delete succeeded is gone and stays gone, one whose delete
\* failed is still there, whatever happened to the others; a cleanup that
\* ended has passed every listed resource; and cleanup_resources returns
\* success (error_count == 0) exactly when no delete call failed.
C21_PerResourceCleanup ==
    (cl_execute /\ cl_pc \in {"cleanup", "done"} /\ ~CleanupDeclined) =>
        /\ \A j \in DOMAIN cl_resources :
               Cardinality(AttemptsOf(j)) = IF j < cl_idx THEN 1 ELSE 0
        /\ cl_success + cl_error = cl_idx - 1
        /\ \A j \in DOMAIN cl_resources : \A i \in AttemptsOf(j) :
               cl_calls[i].ok <=> Item(j) \notin cl_inventory
        /\ (cl_pc = "done" => cl_idx = Len(cl_resources) + 1)
        /\ (cl_error = 0) <=> (\A i \in DOMAIN cl_calls :
                                   cl_calls[i].op \in ResourceDeletes => cl_calls[i].ok)

C21_Witness ==
    /\ cl_execute /\ cl_pc = "done" /\ cl_error >= 1 /\ cl_success >= 2
    /\ \E i, j, k \in DOMAIN cl_calls :
           /\ i < j /\ j < k
           /\ cl_calls[i].op \in ResourceDeletes /\ cl_calls[i].ok
           /\ cl_calls[j].op \in ResourceDeletes /\ ~cl_calls[j].ok
           /\ cl_calls[k].op \in ResourceDeletes /\ cl_calls[k].ok

----------------------------------------------------------------------------
(* Properties of discovery *)

DescribeCalls(kind) ==
    {i \in DOMAIN calls : calls[i].op = DescribeMethod(kind)}

ListCalls(kind) ==
    {i \in DOMAIN cl_calls : cl_calls[i].op = ListMethod(kind)}

\* C22: in each discovery every kind is looked up whatever the outcomes of
\* the other kinds, and what a lookup found is in the result.
\* check_existing_deployment issues one lookup per kind, and its artifacts
\* are the kinds whose lookup returned a resource; list_agentcore_resources
\* issues one listing per kind, and every matching resource of a kind whose
\* listing returned is in the list; find_agent_info looks the function up
\* when the registry lookup failed or found nothing, and returns the agent
\* when either lookup found it.
C22_IndependentLookups ==
    /\ (\E k \in DiscKinds : DescribeCalls(k) # {}) =>
           \A k \in DiscKinds :
               /\ Cardinality(DescribeCalls(k)) = 1
               /\ \A i \in DescribeCalls(k) :
                      (calls[i].ok /\ calls[i].seen)
                          <=> \E j \in DOMAIN artifacts : artifacts[j] = k
    /\ (cl_pc \notin {"off", "list"} /\ cl_region) =>
           \A k \in Kinds :
               /\ Cardinality(ListCalls(k)) = 1
               /\ \A i \in ListCalls(k) :
                      cl_calls[i].ok =>
                          \A r \in cl_inventory :
                              (r.kind = k /\ Matches(r, cl_pattern)) =>
                                  \E j \in DOMAIN cl_resources :
                                      /\ cl_resources[j].type = k
                                      /\ cl_resources[j].name = r.name
    /\ info_calls # <<>> =>
           /\ info_calls[1].op = DescribeMethod(EcrRepository)
           /\ info_calls[1].outcome # ResFound =>
                  /\ Len(info_calls) = 2
                  /\ info_calls[2].op = DescribeMethod(LambdaFunction)
           /\ (\E i \in DOMAIN info_calls : info_calls[i].outcome = ResFound)
                  <=> info_out.found

C22_Witness ==
    /\ \E i \in DescribeCalls(EcrRepository) : ~calls[i].ok
    /\ \E i \in DescribeCalls(IamRole) : ~calls[i].ok
    /\ artifacts = <<LambdaFunction>>

\* Every lookup of the discovery failed with something other than not-found.
EveryLookupFailed ==
    \A k \in DiscKinds :
        /\ DescribeCalls(k) # {}
        /\ \A i \in DescribeCalls(k) : ~calls[i].ok

\* C23 as stated: when every lookup of the discovery failed with an error
\* other than not-found, the run does not take the name for free: it is not
\* past the conflict decision with no artifact recorded, and it issues no
\* launch call.
C23_FailedLookupNotAbsence ==
    EveryLookupFailed =>
        /\ ~(pc = "launch" /\ artifacts = <<>>)
        /\ \A i \in DOMAIN calls : calls[i].op # OpLaunch

----------------------------------------------------------------------------
(* Properties of the conflict decision *)

\* C24 as stated: when the run recreates (--force-recreate or the user's
\* choice 2) and the discovery found resources, every launch call comes
\* after a delete call for a resource found under the old name.
C24_RecreateCleansUpFirst ==
    (force_recreate /\ artifacts # <<>>) =>
        \A i \in LaunchCalls :
            \E j \in 1..(i - 1) :
                /\ calls[j].op \in ResourceDeletes
                /\ calls[j].name = base_name

ConfigureCalls == {i \in DOMAIN calls : calls[i].op = OpConfigure}

\* C25 as stated, for enhanced_deployment: the lookups of the discovery come
\* before every runtime configuration, the launch deploys under the name the
\* conflict decision ended with (the new name after choice 4), and no
\* runtime configuration of the run is under another name.
C25_LaunchUnderResultingName ==
    script = ENHANCED =>
        /\ \A j \in ConfigureCalls : \A k \in DOMAIN calls :
               calls[k].op \in DescribeOps => k < j
        /\ \A i \in LaunchCalls :
               /\ calls[i].name = agent_name
               /\ \A j \in ConfigureCalls : calls[j].name = agent_name

----------------------------------------------------------------------------
(* Properties of a repeated cleanup *)

\* The resources the first run deleted.
DeletedBefore == cl_first.attempted \ cl_first.failed

\* The second run went through its list.
SecondRunDone == cl_first.ran /\ cl_pc = "done" /\ ~CleanupDeclined /\ cl_exit = "0"

\* C26 as stated: the second run issues no delete call for a resource the
\* first run deleted, so reports no failure for it, and the resources it
\* attempts again are exactly those whose deletion failed the first time.
C26_RetryAttemptsFailedOnes ==
    cl_first.ran =>
        /\ Attempted \cap DeletedBefore = {}
        /\ AttemptFailed \cap DeletedBefore = {}
        /\ SecondRunDone => (Attempted \cap cl_first.attempted) = cl_first.failed

\* The kinds whose listing returned in this run.
ListedKinds == {k \in Kinds : \E i \in ListCalls(k) : cl_calls[i].ok}

\* C26, amended: the second run issues no delete call for a resource the
\* first run deleted and reports no failure for it; the resources it
\* attempts again are those whose deletion failed the first time and whose
\* kind's listing returned in the second run.
C26_RetryIsSafe ==
    cl_first.ran =>
        /\ Attempted \cap DeletedBefore = {}
        /\ AttemptFailed \cap DeletedBefore = {}
        /\ SecondRunDone =>
               (Attempted \cap cl_first.attempted)
                   = {r \in cl_first.failed : r.kind \in ListedKinds}

C26_Witness ==
    /\ SecondRunDone
    /\ DeletedBefore # {}
    /\ Cardinality(cl_first.failed) >= 2
    /\ Attempted = cl_first.failed
    /\ cl_error = 0

----------------------------------------------------------------------------
(* Properties of the confirmation *)

\* The answers that read 'yes' once stripped and lower-cased.
YesSpellings == {<<"y", "e", "s">>, <<" ", "Y", "E", "S", " ">>}

\* C27: with --execute a delete call is issued only after the user typed
\* 'yes' (in any case, with any surrounding blanks) at the confirmation;
\* after any other answer the command has ended with no call but the
\* listings, and every listed resource still exists.
C27_DeleteOnlyAfterYes ==
    cl_execute =>
        /\ DeleteCalls # {} => cl_confirm \in YesSpellings
        /\ cl_pc = "cleanup" => cl_confirm \in YesSpellings
        /\ (cl_confirm # NoAnswer /\ cl_confirm \notin YesSpellings) =>
               /\ cl_pc = "done"
               /\ \A i \in DOMAIN cl_calls : \E k \in Kinds : cl_calls[i].op = ListMethod(k)
               /\ \A j \in DOMAIN cl_resources : Item(j) \in cl_inventory

C27_Witness ==
    /\ cl_execute /\ cl_pc = "done"
    /\ cl_confirm = <<"y", "e", "s", "!">>
    /\ Len(cl_resources) >= 3
    /\ cl_exit = "0"

----------------------------------------------------------------------------
(* Properties of the selection of resources *)

\* The fixed part of the names of each kind, as the specification gives it.
FixedPart(kind) ==
    IF kind \in {EcrRepository, LambdaFunction} THEN <<"agentcore-runtime">>
    ELSE IF kind = IamRole THEN <<"AgentCoreRuntimeRole">>
    ELSE <<"bedrock-agentcore">>

Selectable(kind, name) ==
    Contains(name, FixedPart(kind)) /\ Contains(name, cl_pattern)

\* C28: every listed resource has a name holding the fixed part of its kind
\* and the pattern, and is deleted by the method of its kind with its own
\* name as parameter; every delete call of the command is for a listed
\* resource; and no delete call names a resource of the provider whose name
\* lacks the fixed part or the pattern.
C28_OnlyMatchingDeleted ==
    /\ \A j \in DOMAIN cl_resources :
           /\ Selectable(cl_resources[j].type, cl_resources[j].name)
           /\ cl_resources[j].delete_params = cl_resources[j].name
           /\ cl_resources[j].delete_method = DeleteMethod(cl_resources[j].type)
    /\ \A i \in DOMAIN cl_calls :
           cl_calls[i].op \in ResourceDeletes =>
               /\ \E j \in DOMAIN cl_resources : i \in AttemptsOf(j)
               /\ \A r \in PoolSet :
                      (cl_calls[i].op = DeleteMethod(r.kind) /\ cl_calls[i].name = r.name)
                          => Selectable(r.kind, r.name)

C28_Witness ==
    /\ cl_execute /\ cl_pc = "done" /\ cl_pattern = <<"my">>
    /\ \E i \in DOMAIN cl_calls : cl_calls[i].op = "delete_repository" /\ cl_calls[i].ok
    /\ Pool[1] \in cl_inventory /\ Pool[4] \in cl_inventory /\ Pool[5] \in cl_inventory
    /\ Pool[2] \notin cl_inventory

----------------------------------------------------------------------------
(* Properties of the resources a run creates *)

PoolsCreated == {i \in DOMAIN calls : calls[i].op = OpCognito /\ calls[i].ok}

\* C29 as stated: a run sets the identity pool up at most once; a run that
\* reached the launch configured the runtime exactly once, before the
\* launch, under the name it launches, which is the name the run ended with.
C29_OnePoolOneConfiguration ==
    /\ Cardinality(PoolsCreated) <= 1
    /\ \A i \in LaunchCalls :
           /\ Cardinality(ConfigureCalls) = 1
           /\ \A j \in ConfigureCalls :
                  /\ j < i
                  /\ calls[j].name = calls[i].name
                  /\ calls[j].name = agent_name

----------------------------------------------------------------------------
(* Properties of endpoint normalization *)

\* C30 as stated: validate_endpoint_url ends on every input with a URL or
\* with an error, and on an input it accepts, applying it to the URL it
\* returned gives that URL back.
C30_NormalizeIdempotent ==
    url_out # Pending =>
        /\ url_out.ok <=> url_out.error = ""
        /\ url_out.ok => validate_endpoint_url(url_out.url) = UrlOk(url_out.url)

====
